---------------------------- MODULE Spec2Model ----------------------------
(***************************************************************************)
(* Dress_Control: two Arduino sketches.                                    *)
(*                                                                         *)
(*   TEG_Heating&Cooling.ino  serial command dispatcher driving two        *)
(*                            thermoelectric modules (TEG_L, TEG_R)        *)
(*   unnamed/part_000         50 ms analog sampler with exponential        *)
(*                            smoothing                                    *)
(*                                                                         *)
(* The sketches are separate programs; each has its own specification      *)
(* over its own variables (Spec and LiveSpec for the dispatcher,            *)
(* SamplerSpec and FilterSpec for the sampler).                            *)
(***************************************************************************)
EXTENDS Integers, Sequences, FiniteSets, TLC

VARIABLES
    \* ---- TEG_Heating&Cooling.ino ----
    pc,        \* position of the sketch: "setup", "announce", "loop", "exec", "delay"
    inbuf,     \* Serial receive buffer, oldest byte first
    out,       \* lines written with Serial.println, oldest first
    level,     \* last level written to each pin by digitalWrite
    duty,      \* last duty cycle written to each pin by analogWrite
    command,   \* loop()'s local `command`; NoCommand when the iteration read nothing
    pend,      \* statements of the selected branch of loop() still to execute
    sent,      \* history: every byte ever placed in the receive buffer
    trace,     \* history: statements executed since the last delay(100)
    reads,     \* history: Serial.read() calls since the last delay(100)
    \* ---- unnamed/part_000 ----
    analogValue,     \* float analogValue
    previousMillis,  \* unsigned long previousMillis
    last_val,        \* float last_val
    clock,           \* the millis() counter as last read
    lines,           \* lines written to Serial: the two values printed on each
    ticks,           \* history: each loop iteration's millis() reading, and
                     \* whether that iteration ran a sampling cycle
    samples          \* history: the values analogRead(A0) returned

dvars == <<pc, inbuf, out, level, duty, command, pend, sent, trace, reads>>

svars == <<analogValue, previousMillis, last_val, clock, lines, ticks, samples>>

-----------------------------------------------------------------------------
(* Bounds *)

\* total number of bytes the host sends
MaxSent == 4

\* total number of bytes the host sends under LiveSpec
MaxLiveSent == 3

\* number of loop() iterations of the sampler
MaxIter == 5

\* number of sampling cycles under FilterSpec
MaxCycles == 3

-----------------------------------------------------------------------------
(* TEG_Heating&Cooling.ino *)

HIGH == "HIGH"
LOW == "LOW"

ena == 2
in1 == 3
in2 == 4
in3 == 5
in4 == 6
enb == 7

Pins == {ena, in1, in2, in3, in4, enb}

\* TEG(int enablePin, int inputPin1, int inputPin2)
TEG(enablePin, inputPin1, inputPin2) ==
    [enable_pin |-> enablePin, pin1 |-> inputPin1, pin2 |-> inputPin2]

TEG_L == TEG(ena, in1, in2)
TEG_R == TEG(enb, in3, in4)

\* The three kinds of I/O statement the sketch executes.
digitalWrite(pin, val) == [op |-> "digitalWrite", pin |-> pin, val |-> val]
analogWrite(pin, pwm) == [op |-> "analogWrite", pin |-> pin, pwm |-> pwm]
println(text) == [op |-> "println", text |-> text]

\* forward() with the write that clears pin2 left out
forwardNoClear(t, pwm) ==
    << digitalWrite(t.pin1, HIGH),
       analogWrite(t.enable_pin, pwm) >>

\* void forward(int pwm)
forward(t, pwm) ==
    << digitalWrite(t.pin1, HIGH),
       digitalWrite(t.pin2, LOW),
       analogWrite(t.enable_pin, pwm) >>

\* void backward(int pwm)
backward(t, pwm) ==
    << digitalWrite(t.pin1, LOW),
       digitalWrite(t.pin2, HIGH),
       analogWrite(t.enable_pin, pwm) >>

\* stop() with the analogWrite left out
stopKeepsPower(t) ==
    << digitalWrite(t.pin1, LOW),
       digitalWrite(t.pin2, LOW) >>

\* void stop()
stop(t) ==
    << digitalWrite(t.pin1, LOW),
       digitalWrite(t.pin2, LOW),
       analogWrite(t.enable_pin, 0) >>

\* Bytes the host may send: the five commands and one unmapped byte.
Bytes == {"a", "d", "w", "x", "s", "q"}

NoCommand == ""

Banner == "Begin command...."

\* The chain with the 'x' branch copied from 'w' and not turned around
DispatchCopied(c) ==
    IF c = "a" THEN forward(TEG_L, 255) \o <<println("a")>>
    ELSE IF c = "s" THEN stop(TEG_L) \o stop(TEG_R) \o <<println("s")>>
    ELSE IF c = "d" THEN backward(TEG_L, 255) \o <<println("d")>>
    ELSE IF c = "w" THEN forward(TEG_R, 135) \o <<println("w")>>
    ELSE IF c = "x" THEN forward(TEG_R, 135) \o <<println("x")>>
    ELSE <<>>

\* The chain with a final else that echoes whatever was read
DispatchEchoAll(c) ==
    IF c = "a" THEN forward(TEG_L, 255) \o <<println("a")>>
    ELSE IF c = "s" THEN stop(TEG_L) \o stop(TEG_R) \o <<println("s")>>
    ELSE IF c = "d" THEN backward(TEG_L, 255) \o <<println("d")>>
    ELSE IF c = "w" THEN forward(TEG_R, 135) \o <<println("w")>>
    ELSE IF c = "x" THEN backward(TEG_R, 135) \o <<println("x")>>
    ELSE <<println(c)>>

\* The chain with the 'w' branch addressing the left actuator
DispatchWrongSide(c) ==
    IF c = "a" THEN forward(TEG_L, 255) \o <<println("a")>>
    ELSE IF c = "s" THEN stop(TEG_L) \o stop(TEG_R) \o <<println("s")>>
    ELSE IF c = "d" THEN backward(TEG_L, 255) \o <<println("d")>>
    ELSE IF c = "w" THEN forward(TEG_L, 135) \o <<println("w")>>
    ELSE IF c = "x" THEN backward(TEG_R, 135) \o <<println("x")>>
    ELSE <<>>

\* The chain with the echo of 'a' and 'd' written before the actuator call
DispatchEchoFirst(c) ==
    IF c = "a" THEN <<println("a")>> \o forward(TEG_L, 255)
    ELSE IF c = "s" THEN stop(TEG_L) \o stop(TEG_R) \o <<println("s")>>
    ELSE IF c = "d" THEN <<println("d")>> \o backward(TEG_L, 255)
    ELSE IF c = "w" THEN forward(TEG_R, 135) \o <<println("w")>>
    ELSE IF c = "x" THEN backward(TEG_R, 135) \o <<println("x")>>
    ELSE <<>>

\* The if / else-if chain of loop(): the statements run for a command byte.
Dispatch(c) ==
    IF c = "a" THEN forward(TEG_L, 255) \o <<println("a")>>
    ELSE IF c = "s" THEN stop(TEG_L) \o stop(TEG_R) \o <<println("s")>>
    ELSE IF c = "d" THEN backward(TEG_L, 255) \o <<println("d")>>
    ELSE IF c = "w" THEN forward(TEG_R, 135) \o <<println("w")>>
    ELSE IF c = "x" THEN backward(TEG_R, 135) \o <<println("x")>>
    ELSE <<>>

\* State after the globals are constructed and the board has reset:
\* outputs low, no PWM, nothing received, nothing written.
DInit ==
    /\ pc = "setup"
    /\ inbuf = <<>>
    /\ out = <<>>
    /\ level = [p \in Pins |-> LOW]
    /\ duty = [p \in Pins |-> 0]
    /\ command = NoCommand
    /\ pend = <<>>
    /\ sent = <<>>
    /\ trace = <<>>
    /\ reads = 0

\* The host writes one byte to the serial line; the UART appends it to the
\* receive buffer.  MaxSent stays below the buffer's capacity, so no byte
\* is dropped on arrival.
Receive ==
    \E b \in Bytes :
        /\ Len(sent) < MaxSent
        /\ inbuf' = Append(inbuf, b)
        /\ sent' = Append(sent, b)
        /\ UNCHANGED <<pc, out, level, duty, command, pend, trace, reads>>
        /\ UNCHANGED svars

\* setup() without the wait for a first byte
SetupNoWait ==
    /\ pc = "setup"
    /\ pc' = "announce"
    /\ UNCHANGED <<inbuf, out, level, duty, command, pend, sent, trace, reads>>
    /\ UNCHANGED svars

\* setup() waiting with Serial.read(), which takes the byte it waits for
SetupWaitReads ==
    /\ pc = "setup"
    /\ Len(inbuf) > 0
    /\ inbuf' = Tail(inbuf)
    /\ pc' = "announce"
    /\ UNCHANGED <<out, level, duty, command, pend, sent, trace, reads>>
    /\ UNCHANGED svars

\* setup(): while (!Serial.available()) {} falls through once a byte is buffered.
SetupWait ==
    /\ pc = "setup"
    /\ Len(inbuf) > 0
    /\ pc' = "announce"
    /\ UNCHANGED <<inbuf, out, level, duty, command, pend, sent, trace, reads>>
    /\ UNCHANGED svars

\* setup(): Serial.println("Begin command....")
SetupAnnounce ==
    /\ pc = "announce"
    /\ out' = Append(out, Banner)
    /\ pc' = "loop"
    /\ UNCHANGED <<inbuf, level, duty, command, pend, sent, trace, reads>>
    /\ UNCHANGED svars

\* loop() taking the newest buffered byte and dropping the rest
LoopReadNewest ==
    /\ pc = "loop"
    /\ Len(inbuf) > 0
    /\ command' = inbuf[Len(inbuf)]
    /\ inbuf' = <<>>
    /\ reads' = reads + 1
    /\ pend' = Dispatch(inbuf[Len(inbuf)])
    /\ pc' = IF Dispatch(inbuf[Len(inbuf)]) = <<>> THEN "delay" ELSE "exec"
    /\ UNCHANGED <<out, level, duty, sent, trace>>
    /\ UNCHANGED svars

\* loop() reading with Serial.peek(), which leaves the byte in the buffer
LoopReadPeeks ==
    /\ pc = "loop"
    /\ Len(inbuf) > 0
    /\ command' = Head(inbuf)
    /\ reads' = reads + 1
    /\ pend' = Dispatch(Head(inbuf))
    /\ pc' = IF Dispatch(Head(inbuf)) = <<>> THEN "delay" ELSE "exec"
    /\ UNCHANGED <<inbuf, out, level, duty, sent, trace>>
    /\ UNCHANGED svars

\* loop(): Serial.available() > 0, command = Serial.read(), branch selected.
LoopRead ==
    /\ pc = "loop"
    /\ Len(inbuf) > 0
    /\ command' = Head(inbuf)
    /\ inbuf' = Tail(inbuf)
    /\ reads' = reads + 1
    /\ pend' = Dispatch(Head(inbuf))
    /\ pc' = IF Dispatch(Head(inbuf)) = <<>> THEN "delay" ELSE "exec"
    /\ UNCHANGED <<out, level, duty, sent, trace>>
    /\ UNCHANGED svars

\* loop(): Serial.available() is 0, the if body is skipped.
LoopIdle ==
    /\ pc = "loop"
    /\ Len(inbuf) = 0
    /\ command' = NoCommand
    /\ pc' = "delay"
    /\ UNCHANGED <<inbuf, out, level, duty, pend, sent, trace, reads>>
    /\ UNCHANGED svars

\* Position after the head statement of pend has run.
AfterStatement == IF Len(pend) = 1 THEN "delay" ELSE "exec"

\* digitalWrite(pin, val)
DigitalWrite ==
    /\ pc = "exec"
    /\ Head(pend).op = "digitalWrite"
    /\ level' = [level EXCEPT ![Head(pend).pin] = Head(pend).val]
    /\ trace' = Append(trace, Head(pend))
    /\ pend' = Tail(pend)
    /\ pc' = AfterStatement
    /\ UNCHANGED <<inbuf, out, duty, command, sent, reads>>
    /\ UNCHANGED svars

\* analogWrite(pin, pwm)
AnalogWrite ==
    /\ pc = "exec"
    /\ Head(pend).op = "analogWrite"
    /\ duty' = [duty EXCEPT ![Head(pend).pin] = Head(pend).pwm]
    /\ trace' = Append(trace, Head(pend))
    /\ pend' = Tail(pend)
    /\ pc' = AfterStatement
    /\ UNCHANGED <<inbuf, out, level, command, sent, reads>>
    /\ UNCHANGED svars

\* Serial.println(text)
Println ==
    /\ pc = "exec"
    /\ Head(pend).op = "println"
    /\ out' = Append(out, Head(pend).text)
    /\ trace' = Append(trace, Head(pend))
    /\ pend' = Tail(pend)
    /\ pc' = AfterStatement
    /\ UNCHANGED <<inbuf, level, duty, command, sent, reads>>
    /\ UNCHANGED svars

\* delay(100), then loop() is entered again.
Delay ==
    /\ pc = "delay"
    /\ pc' = "loop"
    /\ trace' = <<>>
    /\ reads' = 0
    /\ UNCHANGED <<inbuf, out, level, duty, command, pend, sent>>
    /\ UNCHANGED svars

DNext ==
    \/ Receive
    \/ SetupWait
    \/ SetupAnnounce
    \/ LoopRead
    \/ LoopIdle
    \/ DigitalWrite
    \/ AnalogWrite
    \/ Println
    \/ Delay

-----------------------------------------------------------------------------
(* 32-bit unsigned arithmetic (unsigned long), held as two 16-bit limbs *)

Limb == 2^16

U32(hi, lo) == [hi |-> hi, lo |-> lo]

\* n for 0 <= n < 2^16
ToU32(n) == U32(0, n)

\* (a + b) mod 2^32
Add32(a, b) ==
    LET lo == a.lo + b.lo
        hi == a.hi + b.hi + (lo \div Limb)
    IN  U32(hi % Limb, lo % Limb)

\* (a - b) mod 2^32: unsigned subtraction wraps
Sub32(a, b) ==
    LET lo == a.lo - b.lo
        borrow == IF lo < 0 THEN 1 ELSE 0
    IN  U32((a.hi - b.hi - borrow) % Limb, lo % Limb)

\* a >= b, unsigned
Ge32(a, b) == a.hi > b.hi \/ (a.hi = b.hi /\ a.lo >= b.lo)

-----------------------------------------------------------------------------
(* IEEE 754 binary32 (float): value = (-1)^s * m * 2^e, with m = 0 or        *)
(* 2^23 <= m < 2^24; round to nearest, ties to even.  The exponent range   *)
(* is not bounded: no value the model reaches is subnormal or overflows.   *)

Hidden == 2^23

Float(s, m, e) == [s |-> s, m |-> m, e |-> e]

Zero == Float(0, 0, 0)

\* Shift a non-zero significand below 2^24 left until its top bit is bit 23.
Normalize(s, m, e) ==
    LET k == CHOOSE j \in 0..23 : m * 2^j >= Hidden /\ m * 2^j < 2 * Hidden
    IN  Float(s, m * 2^k, e - k)

\* Round m + rem/(2*half) to nearest even and renormalise on carry.
Round(s, m, e, rem, half) ==
    LET up == rem > half \/ (rem = half /\ m % 2 = 1)
        r == IF up THEN m + 1 ELSE m
    IN  IF r = 2 * Hidden THEN Float(s, Hidden, e + 1) ELSE Float(s, r, e)

\* (float) n for an int n >= 0 below 2^24
FromInt(n) == IF n = 0 THEN Zero ELSE Normalize(0, n, 0)

\* The float nearest to the decimal literal p/q (0 < p/q < 1, p < 64)
FromRatio(p, q) ==
    LET k == CHOOSE j \in 0..24 :
                 (p * 2^j) \div q >= Hidden /\ (p * 2^j) \div q < 2 * Hidden
        n == p * 2^k
    IN  Round(0, n \div q, 0 - k, 2 * (n % q), q)

FNeg(a) == Float(1 - a.s, a.m, a.e)

\* a > 0
FPositive(a) == a.s = 0 /\ a.m > 0

\* |a| >= |b| for non-zero a, b
MagGe(a, b) == a.e > b.e \/ (a.e = b.e /\ a.m >= b.m)

\* a * b: the 48-bit product from 12-bit halves, then one rounding
FMul(a, b) ==
    IF a.m = 0 \/ b.m = 0 THEN Zero
    ELSE
        LET h == 2^12
            ah == a.m \div h
            al == a.m % h
            bh == b.m \div h
            bl == b.m % h
            mid == ah * bl + al * bh
            t == al * bl + (mid % h) * h
            lo == t % (2 * Hidden)  \* low 24 bits of the product
            hi == ah * bh + (mid \div h) + (t \div (2 * Hidden))
            s == (a.s + b.s) % 2
        IN  IF hi >= Hidden
            THEN Round(s, hi, a.e + b.e + 24, lo, Hidden)
            ELSE Round(s, 2 * hi + (lo \div Hidden), a.e + b.e + 23,
                       lo % Hidden, Hidden \div 2)

\* x + y for |x| >= |y| > 0, with guard, round and sticky bits
AddOrdered(x, y) ==
    LET d == x.e - y.e
        X == 8 * x.m
        Y0 == 8 * y.m
        Y == IF d > 26 THEN 1
             ELSE (Y0 \div 2^d) + (IF Y0 % 2^d # 0 /\ (Y0 \div 2^d) % 2 = 0
                                    THEN 1 ELSE 0)
        S == IF x.s = y.s THEN X + Y ELSE X - Y
    IN  IF S = 0 THEN Zero
        ELSE IF S >= 16 * Hidden
        THEN LET S2 == (S \div 2) + (IF S % 2 = 1 /\ (S \div 2) % 2 = 0
                                      THEN 1 ELSE 0)
             IN  Round(x.s, S2 \div 8, x.e + 1, S2 % 8, 4)
        ELSE LET k == CHOOSE j \in 0..27 :
                          S * 2^j >= 8 * Hidden /\ S * 2^j < 16 * Hidden
                 S2 == S * 2^k
             IN  Round(x.s, S2 \div 8, x.e - k, S2 % 8, 4)

\* a + b
FAdd(a, b) ==
    IF a.m = 0 THEN b
    ELSE IF b.m = 0 THEN a
    ELSE IF MagGe(a, b) THEN AddOrdered(a, b)
    ELSE AddOrdered(b, a)

\* a - b
FSub(a, b) == FAdd(a, FNeg(b))

\* a / 2^k: exact, the exponent drops by k
FDivPow2(a, k) == IF a.m = 0 THEN a ELSE Float(a.s, a.m, a.e - k)

-----------------------------------------------------------------------------
(* unnamed/part_000 *)

\* const unsigned long interval = 50
interval == ToU32(50)

\* float alpha = 0.9
alpha == FromRatio(9, 10)

\* Values analogRead(A0) can return: the 10-bit ADC range.
ADC == 0..1023

\* ADC values the sampler model draws from.
RawSamples == {600, 700}

\* ADC values FilterSpec draws from once the first sample has been taken.
FilterSamples == {0, 1, 600, 700, 1023}

\* Milliseconds that can pass between two millis() readings, as unsigned
\* long.  The last is 2^32 - 30: a run long enough to bring the counter to
\* 30 ms before it wraps.
Deltas ==
    { ToU32(0), ToU32(5), ToU32(20), ToU32(35), ToU32(50),
      U32(Limb - 1, Limb - 30) }

\* The test written as currentMillis >= previousMillis + interval, whose
\* sum wraps
DueBySum(currentMillis, prev) == Ge32(currentMillis, Add32(prev, interval))

\* if (currentMillis - previousMillis >= interval)
Due(currentMillis, prev) == Ge32(Sub32(currentMillis, prev), interval)

\* The filter with the two weights exchanged
SmoothSwapped(last, raw) ==
    LET reading == FromInt(raw)
    IN  IF FPositive(last)
        THEN FAdd(FMul(FSub(FromInt(1), alpha), last), FMul(alpha, reading))
        ELSE reading

\* The filter without the test for a previous value
SmoothAlways(last, raw) ==
    FAdd(FMul(alpha, last), FMul(FSub(FromInt(1), alpha), FromInt(raw)))

\* The filter with the new reading subtracted instead of added
SmoothMinus(last, raw) ==
    LET reading == FromInt(raw)
    IN  IF FPositive(last)
        THEN FSub(FMul(alpha, last), FMul(FSub(FromInt(1), alpha), reading))
        ELSE reading

\* analogValue after lines 43-48: the raw reading, smoothed against last_val
\* when last_val > 0.
Smooth(last, raw) ==
    LET reading == FromInt(raw)
    IN  IF FPositive(last)
        THEN FAdd(FMul(alpha, last), FMul(FSub(FromInt(1), alpha), reading))
        ELSE reading

\* float voltage = analogValue * 5.00 / 1024.0
Voltage(v) == FDivPow2(FMul(v, FromInt(5)), 10)

\* The globals with previousMillis started one interval in the past, so
\* that the first iteration samples at once
SInitDueAtOnce ==
    /\ analogValue = Zero
    /\ previousMillis = U32(Limb - 1, Limb - 50)
    /\ last_val = FNeg(FromInt(1))
    /\ clock = ToU32(0)
    /\ lines = <<>>
    /\ ticks = <<>>
    /\ samples = <<>>

\* The globals as initialised; millis() counts from 0 at reset.
SInit ==
    /\ analogValue = Zero
    /\ previousMillis = ToU32(0)
    /\ last_val = FNeg(FromInt(1))
    /\ clock = ToU32(0)
    /\ lines = <<>>
    /\ ticks = <<>>
    /\ samples = <<>>

\* The sampling cycle printing previousMillis as it was before the update
SampleCycleOldStamp(d, raw) ==
    /\ clock' = Add32(clock, d)
    /\ Due(clock', previousMillis)
    /\ previousMillis' = clock'
    /\ analogValue' = Smooth(last_val, raw)
    /\ last_val' = analogValue'
    /\ lines' = Append(lines, [ms |-> previousMillis,
                               voltage |-> Voltage(analogValue')])
    /\ ticks' = Append(ticks, [ms |-> clock', fired |-> TRUE])
    /\ samples' = Append(samples, raw)
    /\ UNCHANGED dvars

\* loop() when the interval has elapsed: d ms after the previous reading
\* millis() is read, then a sampling cycle runs in which analogRead(A0)
\* returns raw.  Serial.print / println write the timestamp and the voltage
\* on one line; the line is held as the two values printed.
SampleCycle(d, raw) ==
    /\ clock' = Add32(clock, d)
    /\ Due(clock', previousMillis)
    /\ previousMillis' = clock'
    /\ analogValue' = Smooth(last_val, raw)
    /\ last_val' = analogValue'
    /\ lines' = Append(lines, [ms |-> clock', voltage |-> Voltage(analogValue')])
    /\ ticks' = Append(ticks, [ms |-> clock', fired |-> TRUE])
    /\ samples' = Append(samples, raw)
    /\ UNCHANGED dvars

\* The idle iteration with previousMillis = currentMillis placed outside
\* the if
SkipCycleStamps(d) ==
    /\ clock' = Add32(clock, d)
    /\ ~Due(clock', previousMillis)
    /\ previousMillis' = clock'
    /\ ticks' = Append(ticks, [ms |-> clock', fired |-> FALSE])
    /\ UNCHANGED <<analogValue, last_val, lines, samples>>
    /\ UNCHANGED dvars

\* loop() when the interval has not elapsed: millis() is read and nothing
\* else happens.
SkipCycle(d) ==
    /\ clock' = Add32(clock, d)
    /\ ~Due(clock', previousMillis)
    /\ ticks' = Append(ticks, [ms |-> clock', fired |-> FALSE])
    /\ UNCHANGED <<analogValue, previousMillis, last_val, lines, samples>>
    /\ UNCHANGED dvars

Sample ==
    \E d \in Deltas, raw \in RawSamples :
        Len(ticks) < MaxIter /\ SampleCycle(d, raw)

Skip ==
    \E d \in Deltas :
        Len(ticks) < MaxIter /\ SkipCycle(d)

SNext ==
    \/ Sample
    \/ Skip

\* The filter alone: every iteration comes one interval after the last, so
\* each runs a sampling cycle.  The first reading ranges over the whole ADC.
FilterCycle ==
    \E raw \in (IF samples = <<>> THEN ADC ELSE FilterSamples) :
        Len(samples) < MaxCycles /\ SampleCycle(interval, raw)

FNext == FilterCycle

-----------------------------------------------------------------------------
(* Specifications *)

vars == <<dvars, svars>>

Init == DInit /\ SInit

\* The dispatcher sketch
Next == DNext

Spec == Init /\ [][Next]_vars

\* The statements of the dispatcher sketch; Receive is the host's.
Step ==
    \/ SetupWait
    \/ SetupAnnounce
    \/ LoopRead
    \/ LoopIdle
    \/ DigitalWrite
    \/ AnalogWrite
    \/ Println
    \/ Delay

\* The host's side under LiveSpec: as Receive, with the smaller bound.
LiveReceive ==
    \E b \in Bytes :
        /\ Len(sent) < MaxLiveSent
        /\ inbuf' = Append(inbuf, b)
        /\ sent' = Append(sent, b)
        /\ UNCHANGED <<pc, out, level, duty, command, pend, trace, reads>>
        /\ UNCHANGED svars

LiveNext ==
    \/ LiveReceive
    \/ Step

\* The dispatcher sketch on a processor that keeps running: the statement
\* the sketch is at is eventually executed.
LiveSpec == Init /\ [][LiveNext]_vars /\ WF_vars(Step)

\* The sampler sketch
SamplerSpec == Init /\ [][SNext]_vars

\* The sampler sketch sampling on every iteration
FilterSpec == Init /\ [][FNext]_vars

-----------------------------------------------------------------------------
(* Properties of the dispatcher, checked under Spec *)

Commands == {"a", "d", "w", "x", "s"}

IsCommand(b) == b \in Commands

\* The bytes Serial.read() has returned so far, in order.
Consumed == SubSeq(sent, 1, Len(sent) - Len(inbuf))

\* The println statements and the pin writes of the current iteration.
Echoes == SelectSeq(trace, LAMBDA st : st.op = "println")

Writes == SelectSeq(trace, LAMBDA st : st.op # "println")

\* The outputs of one actuator.
Outputs(t) == <<level[t.pin1], level[t.pin2], duty[t.enable_pin]>>

\* The iteration has run its branch for command byte c to the end.
Finished(c) == pc = "delay" /\ reads = 1 /\ command = c

\* C1: for each actuator, in every reachable state, also between the pin
\* writes inside forward(), backward() and stop(), pin1 and pin2 are never
\* both HIGH.
C1_DirectionPinsNeverBothHigh ==
    \A t \in {TEG_L, TEG_R} : ~(level[t.pin1] = HIGH /\ level[t.pin2] = HIGH)

\* C2: an iteration that consumed 'a', 'd', 'w' or 'x' has performed one
\* actuator operation (three writes, all on the addressed actuator) and
\* written one echo line holding that byte, and leaves the addressed
\* actuator at the direction and power of the command table.
C2_MappedCommandEffect ==
    \A c \in {"a", "d", "w", "x"} :
        Finished(c) =>
            LET t == IF c \in {"a", "d"} THEN TEG_L ELSE TEG_R
                power == IF c \in {"a", "d"} THEN 255 ELSE 135
            IN  /\ Echoes = << [op |-> "println", text |-> c] >>
                /\ Len(Writes) = 3
                /\ {Writes[i].pin : i \in 1..3} = {t.pin1, t.pin2, t.enable_pin}
                /\ Outputs(t) = IF c \in {"a", "w"}
                                 THEN <<HIGH, LOW, power>>
                                 ELSE <<LOW, HIGH, power>>

\* C2 witness: 'x' has been carried out on a right actuator that 'w' had
\* driven forward.
C2_Witness ==
    /\ Finished("x")
    /\ Consumed = <<"w", "x">>
    /\ Outputs(TEG_R) = <<LOW, HIGH, 135>>

\* C3: an iteration that consumes a byte outside a, d, w, x, s removes it
\* from the buffer, changes no pin level and no duty cycle, writes nothing,
\* and goes straight to the delay with nothing left to execute.
C3_UnmappedByteIgnored ==
    /\ [][(pc = "loop" /\ pc' # "loop" /\ Len(inbuf) > 0
            /\ Head(inbuf) \notin Commands)
          => (/\ inbuf' = Tail(inbuf)
              /\ level' = level
              /\ duty' = duty
              /\ out' = out
              /\ pend' = <<>>
              /\ pc' = "delay")]_vars
    /\ [](pc = "delay" /\ reads = 1 /\ command \notin Commands => trace = <<>>)

\* C3 witness: 'q' has been consumed while the left actuator was heating.
C3_Witness ==
    /\ Finished("q")
    /\ Consumed = <<"a", "q">>
    /\ Outputs(TEG_L) = <<HIGH, LOW, 255>>
    /\ out = <<Banner, "a">>

\* C4: once stop() has completed on an actuator its pins are LOW and its
\* duty cycle is 0; after an iteration that consumed 's' both actuators
\* are at (LOW, LOW, 0) and one echo line "s" has been written for it.
C4_StopLeavesOutputsOff ==
    /\ (pc = "exec" /\ command = "s" /\ Len(trace) >= 3)
           => Outputs(TEG_L) = <<LOW, LOW, 0>>
    /\ Finished("s") =>
           /\ Outputs(TEG_L) = <<LOW, LOW, 0>>
           /\ Outputs(TEG_R) = <<LOW, LOW, 0>>
           /\ Echoes = << [op |-> "println", text |-> "s"] >>
           /\ out[Len(out)] = "s"

\* C4 witness: 's' has been carried out with both actuators powered.
C4_Witness ==
    /\ Finished("s")
    /\ Consumed = <<"a", "x", "s">>
    /\ out = <<Banner, "a", "x", "s">>

\* C9: an iteration reads one byte when the buffer holds any and none when
\* it is empty, always the oldest; the loop is entered only from setup or
\* from the delay, so at most one byte is read between two delays; and the
\* echoes written are the command bytes among those read, in order.
C9_OneByteFifo ==
    /\ [][(pc = "loop" /\ pc' # "loop")
          => IF Len(inbuf) > 0
             THEN command' = Head(inbuf) /\ inbuf' = Tail(inbuf)
                  /\ reads' = 1
             ELSE inbuf' = inbuf /\ reads' = 0 /\ pc' = "delay"]_vars
    /\ [][(pc # "loop" /\ pc' = "loop") => pc \in {"announce", "delay"}]_vars
    /\ [][(pc = "delay" /\ pc' # "delay") => (pc' = "loop" /\ reads' = 0)]_vars
    /\ [](reads <= 1)
    /\ [](pc \in {"loop", "delay"}
            => Tail(out) = SelectSeq(Consumed, IsCommand))
    /\ [](pc = "exec"
            => \/ Tail(out) = SelectSeq(Consumed, IsCommand)
               \/ /\ Tail(out) \o <<command>> = SelectSeq(Consumed, IsCommand)
                  /\ pend[Len(pend)] = [op |-> "println", text |-> command])

\* C9 witness: four bytes were sent, three have been read, the unmapped one
\* left no echo and the last is still queued.
C9_Witness ==
    /\ sent = <<"a", "q", "d", "s">>
    /\ inbuf = <<"s">>
    /\ out = <<Banner, "a", "d">>
    /\ pc = "delay"

\* C10: the readiness line is written once, as the first line, only after
\* a byte has been buffered and before any echo or pin write; while no
\* byte has arrived setup does not complete and nothing is written.
C10_ReadinessLine ==
    /\ Len(SelectSeq(out, LAMBDA l : l = Banner))
          = (IF pc \in {"setup", "announce"} THEN 0 ELSE 1)
    /\ out # <<>> => out[1] = Banner
    /\ pc # "setup" => Len(sent) >= 1
    /\ pc \in {"setup", "announce"} =>
          /\ out = <<>>
          /\ trace = <<>>
          /\ pend = <<>>
          /\ inbuf = sent
          /\ \A p \in Pins : level[p] = LOW /\ duty[p] = 0
    /\ sent = <<>> => pc = "setup"

\* C10 witness: the readiness line is followed by two echoes.
C10_Witness ==
    /\ Len(out) = 3
    /\ out[1] = Banner
    /\ pc = "delay"

-----------------------------------------------------------------------------
(* Properties of the sampler, checked under SamplerSpec and FilterSpec *)

\* The loop iterations that ran a sampling cycle, in order.
Fired == SelectSeq(ticks, LAMBDA t : t.fired)

\* The number of sampling cycles among the first i iterations.
CyclesUpTo(i) == Cardinality({j \in 1..i : ticks[j].fired})

\* The float f holds exactly the integer n, 0 <= n < 2^24.
HoldsInt(f, n) ==
    IF n = 0 THEN f.m = 0
    ELSE /\ f.s = 0
         /\ f.e \in -23..0
         /\ f.m % 2^(0 - f.e) = 0
         /\ f.m \div 2^(0 - f.e) = n

\* C5: any two consecutive sampling cycles are at least 50 ms of clock
\* time apart, the difference of the two readings taken modulo 2^32.
C5_CyclesAtLeastIntervalApart ==
    \A i \in 1..(Len(Fired) - 1) :
        LET elapsed == Sub32(Fired[i + 1].ms, Fired[i].ms)
        IN  elapsed.hi > 0 \/ elapsed.lo >= 50

\* C5 witness: the counter wrapped between two consecutive sampling
\* cycles, an iteration in between found the interval not yet elapsed,
\* and the second cycle came less than 2^16 ms after the first.
C5_Witness ==
    /\ Len(ticks) = 4
    /\ ticks[2].fired /\ ~ticks[3].fired /\ ticks[4].fired
    /\ ticks[2].ms.hi = Limb - 1
    /\ ticks[3].ms.hi = 0
    /\ Sub32(ticks[4].ms, ticks[2].ms).hi = 0

\* The clock readings and analog values of the end-to-end scenario.
ScenarioClock == <<0, 20, 55, 60, 110>>

ScenarioRaw == <<500, 500, 600, 600, 700>>

\* The iterations so far are the first of the scenario: the clock read as
\* the scenario says, and each analogRead returned the scenario's value
\* for its tick.
OnScenario ==
    /\ Len(ticks) <= 5
    /\ \A i \in 1..Len(ticks) :
          /\ ticks[i].ms = ToU32(ScenarioClock[i])
          /\ ticks[i].fired => samples[CyclesUpTo(i)] = ScenarioRaw[i]

\* C6 as stated: on the scenario the sampler runs a cycle at t = 0, 55 and
\* 110 with smoothed values 500, 510 and 529, and none at t = 20 and 60.
C6_ScenarioAsStated ==
    OnScenario =>
        /\ \A i \in 1..Len(ticks) : ticks[i].fired = (i \in {1, 3, 5})
        /\ Len(ticks) = 1 => HoldsInt(analogValue, 500)
        /\ Len(ticks) = 3 => HoldsInt(analogValue, 510)
        /\ Len(ticks) = 5 => HoldsInt(analogValue, 529)

\* C6 amended: on the scenario the sampler runs no cycle at t = 0, 20 and
\* 60; it runs its first cycle at t = 55 with smoothed value 600 and its
\* second at t = 110 with smoothed value 610, each stored in last_val and
\* stamped with that clock reading.
C6_ScenarioAsCoded ==
    OnScenario =>
        /\ \A i \in 1..Len(ticks) : ticks[i].fired = (i \in {3, 5})
        /\ Len(ticks) \in {1, 2} => lines = <<>> /\ samples = <<>>
        /\ Len(ticks) \in {3, 4} =>
              /\ HoldsInt(analogValue, 600)
              /\ last_val = analogValue
              /\ Len(lines) = 1
              /\ lines[1].ms = ToU32(55)
        /\ Len(ticks) = 5 =>
              /\ HoldsInt(analogValue, 610)
              /\ last_val = analogValue
              /\ Len(lines) = 2
              /\ lines[2].ms = ToU32(110)

\* C6 witness: the whole scenario has run.
C6_Witness == OnScenario /\ Len(ticks) = 5 /\ samples = <<600, 700>>

\* C7: the first sampling cycle after start produces exactly the raw
\* sample r it read and stores it in last_val, for every r in 0..1023.
C7_FirstCycleReturnsRaw ==
    Len(samples) = 1 =>
        /\ HoldsInt(analogValue, samples[1])
        /\ last_val = analogValue

\* C7 witness: the first cycle read the largest ADC value.
C7_Witness ==
    /\ samples = <<1023>>
    /\ last_val = Float(0, 1023 * 2^14, -14)

\* C8: every sampling cycle after the first, with h the filter state left
\* by the previous cycle and r the raw sample read, produces and stores
\* 0.9*h + 0.1*r.
C8_LaterCyclesSmooth ==
    [][(Len(samples') = Len(samples) + 1 /\ Len(samples) >= 1)
         => LET r == FromInt(samples'[Len(samples')])
                expected == FAdd(FMul(alpha, last_val),
                                 FMul(FSub(FromInt(1), alpha), r))
            IN  analogValue' = expected /\ last_val' = expected]_vars

\* C11: once the first sampling cycle has run, last_val is never negative.
C11_FilterStateNonNegative ==
    Len(samples) >= 1 => (last_val.s = 0 \/ last_val.m = 0)

\* C11 witness: the filter state went through 0 and is positive again
\* after three cycles.
C11_Witness ==
    /\ samples = <<0, 1, 0>>
    /\ FPositive(last_val)

\* C12: a loop iteration whose reading is less than 50 ms (modulo 2^32)
\* after previousMillis leaves previousMillis, last_val and analogValue
\* unchanged, reads no sample and writes no line; previousMillis changes
\* only in an iteration that runs a sampling cycle.
C12_IdleIterationChangesNothing ==
    /\ [][(Len(ticks') = Len(ticks) + 1
            /\ LET elapsed == Sub32(ticks'[Len(ticks')].ms, previousMillis)
               IN  elapsed.hi = 0 /\ elapsed.lo < 50)
          => (/\ previousMillis' = previousMillis
              /\ last_val' = last_val
              /\ analogValue' = analogValue
              /\ samples' = samples
              /\ lines' = lines
              /\ ~ticks'[Len(ticks')].fired)]_vars
    /\ [][previousMillis' # previousMillis
          => (/\ Len(ticks') = Len(ticks) + 1
              /\ ticks'[Len(ticks')].fired
              /\ Len(samples') = Len(samples) + 1
              /\ Len(lines') = Len(lines) + 1)]_vars

\* C12 witness: an iteration 35 ms after a sampling cycle has left the
\* stamp and the filter state of that cycle in place.
C12_Witness ==
    /\ Len(ticks) = 2
    /\ ticks[1].fired /\ ~ticks[2].fired
    /\ Sub32(ticks[2].ms, ticks[1].ms) = ToU32(35)
    /\ previousMillis = ticks[1].ms
    /\ Len(lines) = 1
    /\ last_val = FromInt(samples[1])

\* C14: the lines written are one per sampling cycle, in order, each
\* stamped with the clock value read by its iteration; the last stamp is
\* the value held in previousMillis.
C14_OneLinePerCycle ==
    /\ Len(lines) = Len(Fired)
    /\ Len(lines) = Len(samples)
    /\ \A i \in 1..Len(lines) : lines[i].ms = Fired[i].ms
    /\ lines # <<>> => lines[Len(lines)].ms = previousMillis

\* C14 witness: two cycles with an idle iteration between them have
\* written two lines, the second stamped 70 ms after the first.
C14_Witness ==
    /\ Len(ticks) = 3
    /\ ticks[1].fired /\ ~ticks[2].fired /\ ticks[3].fired
    /\ Len(lines) = 2
    /\ Sub32(lines[2].ms, lines[1].ms) = ToU32(70)

\* C19: up to and including the first sampling cycle, an iteration runs a
\* cycle exactly when its clock reading is at least 50; so no line is
\* written while every reading is below 50.
C19_FirstCycleAtFifty ==
    /\ \A i \in 1..Len(ticks) :
          (\A j \in 1..(i - 1) : ~ticks[j].fired)
              => (ticks[i].fired <=> (ticks[i].ms.hi > 0 \/ ticks[i].ms.lo >= 50))
    /\ (\A i \in 1..Len(ticks) : ticks[i].ms.hi = 0 /\ ticks[i].ms.lo < 50)
          => (lines = <<>> /\ samples = <<>>
              /\ previousMillis = ToU32(0) /\ last_val = FNeg(FromInt(1)))

\* C19 witness: readings 0, 20, 40 ran no cycle and the reading 60 ran
\* the first.
C19_Witness ==
    /\ Len(ticks) = 4
    /\ ticks[1].ms = ToU32(0) /\ ticks[2].ms = ToU32(20)
    /\ ticks[3].ms = ToU32(40) /\ ticks[4].ms = ToU32(60)
    /\ ~ticks[3].fired /\ ticks[4].fired
    /\ Len(lines) = 1

-----------------------------------------------------------------------------
(* Further properties of the dispatcher *)

\* C13: while 'a' or 'd' is carried out only pins 2, 3, 4 are written and
\* the right actuator's outputs stay as they were; while 'w' or 'x' is
\* carried out only pins 7, 5, 6 are written and the left actuator's
\* outputs stay as they were; the two actuators share no pin.
C13_CommandsTouchOneActuator ==
    /\ [][(command' \in {"a", "d"} /\ pc' \in {"exec", "delay"})
          => Outputs(TEG_R)' = Outputs(TEG_R)]_vars
    /\ [][(command' \in {"w", "x"} /\ pc' \in {"exec", "delay"})
          => Outputs(TEG_L)' = Outputs(TEG_L)]_vars
    /\ [](command \in {"a", "d"}
            => \A i \in 1..Len(Writes) : Writes[i].pin \in {2, 3, 4})
    /\ [](command \in {"w", "x"}
            => \A i \in 1..Len(Writes) : Writes[i].pin \in {7, 5, 6})
    /\ []({TEG_L.enable_pin, TEG_L.pin1, TEG_L.pin2}
            \cap {TEG_R.enable_pin, TEG_R.pin1, TEG_R.pin2} = {})

\* C13 witness: 'w' has been carried out and the left actuator still
\* cools at full power.
C13_Witness ==
    /\ Finished("w")
    /\ Consumed = <<"d", "w">>
    /\ Outputs(TEG_L) = <<LOW, HIGH, 255>>
    /\ Outputs(TEG_R) = <<HIGH, LOW, 135>>

\* C16: the wait in setup takes no byte: until loop starts the buffer
\* holds every byte sent, the first loop iteration finds the buffer
\* non-empty and reads the first byte sent, and carries it out as a
\* command.
C16_StartupWaitKeepsByte ==
    /\ pc \in {"setup", "announce"} => inbuf = sent
    /\ (pc \in {"announce", "loop"} /\ Consumed = <<>>)
          => (Len(inbuf) >= 1 /\ inbuf[1] = sent[1])
    /\ pc \in {"exec", "delay"} => (Len(Consumed) >= 1 /\ Consumed[1] = sent[1])
    /\ (pc = "delay" /\ reads = 1 /\ Len(Consumed) = 1)
          => /\ command = sent[1]
             /\ out = IF IsCommand(sent[1]) THEN <<Banner, sent[1]>>
                                             ELSE <<Banner>>
             /\ Len(Writes) = IF sent[1] = "s" THEN 6
                              ELSE IF IsCommand(sent[1]) THEN 3 ELSE 0

\* C16 witness: the byte that released the wait has been carried out by
\* the first iteration.
C16_Witness ==
    /\ sent = <<"d">>
    /\ pc = "delay"
    /\ out = <<Banner, "d">>
    /\ Outputs(TEG_L) = <<LOW, HIGH, 255>>

\* The outputs a command selects are in place.
Selected(c) ==
    IF c = "a" THEN Outputs(TEG_L) = <<HIGH, LOW, 255>>
    ELSE IF c = "d" THEN Outputs(TEG_L) = <<LOW, HIGH, 255>>
    ELSE IF c = "w" THEN Outputs(TEG_R) = <<HIGH, LOW, 135>>
    ELSE IF c = "x" THEN Outputs(TEG_R) = <<LOW, HIGH, 135>>
    ELSE Outputs(TEG_L) = <<LOW, LOW, 0>> /\ Outputs(TEG_R) = <<LOW, LOW, 0>>

\* C17: the echo of a command is the last statement of its iteration:
\* when it is on the output every pin and PWM write of the command has
\* been made and the addressed actuators are in the state it selects.
C17_EchoAfterWrites ==
    \A i \in 1..Len(trace) :
        trace[i].op = "println" =>
            /\ i = Len(trace)
            /\ pend = <<>>
            /\ trace[i].text = command
            /\ out[Len(out)] = command
            /\ Len(Writes) = IF command = "s" THEN 6 ELSE 3
            /\ Selected(command)

\* C17 witness: the echo of 'a' is out and the left actuator, which was
\* cooling, heats.
C17_Witness ==
    /\ Consumed = <<"d", "a">>
    /\ out = <<Banner, "d", "a">>
    /\ Echoes # <<>>
    /\ Outputs(TEG_L) = <<HIGH, LOW, 255>>

\* C18: between iterations each actuator is stopped (LOW, LOW, 0),
\* forward (HIGH, LOW, P) or backward (LOW, HIGH, P), with P = 255 on the
\* left and 135 on the right; the duty cycle written is always 0 or P.
C18_ThreeActuatorStates ==
    /\ pc \in {"loop", "delay"} =>
          /\ Outputs(TEG_L) \in {<<LOW, LOW, 0>>, <<HIGH, LOW, 255>>,
                                  <<LOW, HIGH, 255>>}
          /\ Outputs(TEG_R) \in {<<LOW, LOW, 0>>, <<HIGH, LOW, 135>>,
                                  <<LOW, HIGH, 135>>}
    /\ duty[TEG_L.enable_pin] \in {0, 255}
    /\ duty[TEG_R.enable_pin] \in {0, 135}

\* C18 witness: both actuators have been turned from backward to forward.
C18_Witness ==
    /\ pc = "delay"
    /\ Consumed = <<"d", "x", "a", "w">>
    /\ Outputs(TEG_L) = <<HIGH, LOW, 255>>
    /\ Outputs(TEG_R) = <<HIGH, LOW, 135>>

\* The number of command bytes among the first n bytes sent.
CommandsUpTo(n) ==
    Cardinality({i \in 1..n : i <= Len(sent) /\ IsCommand(sent[i])})

\* C15: on a processor that keeps running, the n-th byte sent is
\* eventually read and, if it is a command, eventually echoed; each
\* iteration that finds bytes buffered takes the first and moves every
\* other one position forward, so the byte at position k is read by the
\* k-th following iteration.
C15_EveryByteConsumed ==
    /\ \A n \in 1..MaxLiveSent :
          (Len(sent) >= n) ~> (Len(Consumed) >= n)
    /\ \A n \in 1..MaxLiveSent :
          (Len(sent) >= n /\ IsCommand(sent[n]))
              ~> (Len(out) >= 1 + CommandsUpTo(n))
    /\ [][(pc = "loop" /\ pc' # "loop" /\ Len(inbuf) > 0)
          => (/\ Len(inbuf') = Len(inbuf) - 1
              /\ \A k \in 2..Len(inbuf) : inbuf'[k - 1] = inbuf[k])]_vars

\* C15 witness: three bytes that queued up before setup finished have all
\* been read and the two commands among them echoed.
C15_Witness ==
    /\ sent = <<"w", "q", "s">>
    /\ inbuf = <<>>
    /\ out = <<Banner, "w", "s">>
    /\ pc = "loop"

=============================================================================
